---- MODULE Spec2Model ----
(***************************************************************************)
(* The real-or-AI game: the asset catalog (data/images.ts), the pair       *)
(* sampler (hooks/useImagePair.ts), the game reducer                       *)
(* (hooks/useGameState.ts) and the game board with its feedback timer, in  *)
(* the continuous single-image mode and in the two-image mode              *)
(* (components/GameBoard.tsx), the arrow-key selection of the two-image    *)
(* mode with its own timeout, and the single-image mode that keeps the set *)
(* of the images already guessed.                                          *)
(***************************************************************************)
EXTENDS Integers, Sequences, FiniteSets, TLC

(***************************************************************************)
(* Bounds of the model.                                                    *)
(***************************************************************************)
\* Most files "<n>.jpg" one real/ partition of a category directory holds.
MaxReal == 2
\* Most files one ai/ partition of a category directory holds.
MaxAi == 3
\* Most image files below public/images/ altogether.
MaxImages == 4
\* The ghost counter of returned generateRandomPair calls saturates here.
CallsBound == 5
\* History window of the pair sampler.  The source sets 50
\* (useImagePair.ts:5) and 15 in the other revision (useImagePair.ts:128);
\* the window is scaled down so that truncation is reached with the
\* catalogs MaxImages allows.
RECENT_HISTORY_LENGTH == 4
\* Unique-display target of the continuous mode.  The source sets 50
\* (UNIQUE_DISPLAY_COUNT_TARGET); it is scaled down so that pools below and
\* at the target occur among the catalogs MaxPool allows, with reshuffles at
\* the end of the list, at the target in the middle of the list, and at both.
UNIQUE_DISPLAY_COUNT_TARGET == 3
\* Most image files below public/images/ in the runs of the continuous mode
\* and of the pair request with a category filter.
MaxPool == 3
\* Most image files below public/images/ in the runs that follow the first
\* category draw only, over all four category directories.
MaxDrawImages == 6
\* Window of the recent-image history of the single-image mode that filters
\* by recent ids.  The source sets 15 (MOBILE_HISTORY_LENGTH); scaled down
\* like RECENT_HISTORY_LENGTH.
MOBILE_HISTORY_LENGTH == 3
\* Most scored guesses between two game resets: the guess handlers stop
\* taking guesses when totalAttempts has reached it.
MaxTotalAttempts == 4
\* Most image files below public/images/ in the runs of the reducer alone.
MaxReducerImages == 1
\* Most timeouts of the arrow-key handler pending at once: the handler stops
\* taking keys when so many are pending.
MaxKeyboardTimeouts == 2
\* Size of the unseen pool at or below which the advancement effect fetches
\* more pairs.  The source sets 5 (GameBoard.tsx:14); it is scaled down so
\* that advances with and without a fetch occur with the lists MaxImages
\* allows.
PREFETCH_THRESHOLD == 1
\* Calls of generateRandomPair of one fetch.  The source sets 4
\* (GameBoard.tsx:15); scaled down with PREFETCH_THRESHOLD, more than one
\* call so that a fetch renders the pair of its last call only.
FETCH_COUNT == 2

(***************************************************************************)
(* Program constants.                                                      *)
(***************************************************************************)
maxAttempts == 20
peopleWeight == 3

\* The loop counter of a draw loop that does not exit is held at this value.
AttemptsCap == maxAttempts + 1

Category == {"people", "nature", "city", "interior"}
\* Order in which the glob lists the category directories.
CategoryOrder == <<"city", "interior", "nature", "people">>
\* Directories that may hold files in the catalogs of the model.
Dirs == {"people", "nature", "city"}

NULL == "null"

VARIABLES
    files,            \* catalog: per category, the number of real/ and ai/ files
    isMobile,         \* width < MOBILE_BREAKPOINT
    \* useImagePair
    currentPair, loading, shuffledImages, error, recentlyUsedIds,
    \* position inside a running generateRandomPair call and its locals
    pc, chosenCategory, randomRealImage, attempts,
    \* ghost: filter of the last pair request, number of returned calls
    request, calls,
    \* continuous single-image mode of the game board
    masterMobileList, currentMobileImage, masterMobileIndex,
    uniqueImagesShownCount, mobileLoading, mobileError, isAdvancing,
    \* ghost: the images displayed since the last initializeMobileGame, in
    \* order, up to one more than the length of the master list; Closed after
    shown,
    \* ghost: the advances since the master list was last shuffled
    advancesSinceShuffle,
    \* ghost: the advances since initializeMobileGame or, if later, since the
    \* last advance that found the unique-display target reached
    advancesSinceTarget,
    \* single-image mode with a recent-id history
    recentMobileImageIds,
    \* useGameState
    score, totalAttempts, selectedImageId, isCorrect, showFeedback,
    correctStreak, selectedCategory,
    \* the feedback timer of the game board is pending
    nextActionTimer,
    \* ghost: scored answers that wait for their advance; below 0 when an
    \* advance ran that no answered round was waiting for
    pendingRounds,
    \* ghost: the last step of the game board
    lastStep,
    \* ghost: what a game reset found, until the step after the reset
    resetFrom,
    \* single-image mode that keeps the set of the images already guessed
    mobileImageList, currentMobileIndex, isInitialMobileLoad,
    seenMobileImageIds, needsMobileAdvance,
    \* calls of generateRandomPair the loop of the advancement effect has
    \* still to make
    fetchesLeft,
    \* timeouts of the arrow-key handler that have not fired yet
    keyboardTimeouts

pairVars == <<currentPair, loading, shuffledImages, error, recentlyUsedIds,
              pc, chosenCategory, randomRealImage, attempts, request, calls>>
mobileVars == <<masterMobileList, currentMobileImage, masterMobileIndex,
                uniqueImagesShownCount, mobileLoading, mobileError, isAdvancing,
                shown, advancesSinceShuffle, advancesSinceTarget>>
gameVars == <<score, totalAttempts, selectedImageId, isCorrect, showFeedback,
              correctStreak, selectedCategory>>
boardVars == <<gameVars, nextActionTimer, pendingRounds, lastStep, resetFrom>>
seenVars == <<mobileImageList, currentMobileIndex, isInitialMobileLoad,
              seenMobileImageIds, needsMobileAdvance, fetchesLeft>>
env == <<files, isMobile>>
vars == <<env, pairVars, mobileVars, recentMobileImageIds, boardVars,
          seenVars, keyboardTimeouts>>

(***************************************************************************)
(* Helpers on sequences.                                                   *)
(***************************************************************************)
Min(a, b) == IF a < b THEN a ELSE b
Range(s) == {s[i] : i \in 1..Len(s)}
\* Array.prototype.slice(0, n)
Slice0(s, n) == SubSeq(s, 1, Min(Len(s), n))

(***************************************************************************)
(* data/images.ts: the catalog built at module load.                       *)
(***************************************************************************)
\* The Image built for the file /public/images/<category>/<type>/<index>.jpg
MkImageUntyped(type, category, index) ==
    [id |-> <<category, index>>, category |-> category, isAI |-> type = "ai"]
MkImageAll(type, category, index) ==
    [id |-> <<type, category, index>>, category |-> category, isAI |-> TRUE]
MkImage(type, category, index) ==
    [id |-> <<type, category, index>>, category |-> category, isAI |-> type = "ai"]

NoImage == [id |-> <<"none", "none", 0>>, category |-> "none", isAI |-> FALSE]
NoPair == [realImage |-> NoImage, aiImage |-> NoImage, category |-> "none"]

categoryImageCache ==
    [c \in Category |->
        [real |-> [i \in 1..files[c].real |-> MkImage("real", c, i)],
         ai   |-> [i \in 1..files[c].ai   |-> MkImage("ai", c, i)]]]

IsAvailable(c) ==
    Len(categoryImageCache[c].real) > 0 /\ Len(categoryImageCache[c].ai) > 0

availableCategories == SelectSeq(CategoryOrder, IsAvailable)

getCategoryImages(category) ==
    IF category \in Range(availableCategories)
    THEN categoryImageCache[category]
    ELSE [real |-> <<>>, ai |-> <<>>]

(***************************************************************************)
(* Catalogs of the model and the initial state (before the mount effect).  *)
(***************************************************************************)
TotalImages(f) ==
    f["people"].real + f["people"].ai + f["nature"].real + f["nature"].ai
    + f["city"].real + f["city"].ai + f["interior"].real + f["interior"].ai

Catalogs ==
    {f \in [Category -> [real : 0..MaxReal, ai : 0..MaxAi]] :
        /\ \A c \in Category \ Dirs : f[c].real = 0 /\ f[c].ai = 0
        /\ TotalImages(f) <= MaxImages}

InitPair ==
    /\ currentPair = NoPair
    /\ loading = TRUE
    /\ shuffledImages = <<>>
    /\ error = NULL
    /\ recentlyUsedIds = <<>>
    /\ pc = "idle"
    /\ chosenCategory = "none"
    /\ randomRealImage = NoImage
    /\ attempts = 0
    /\ request = "none"
    /\ calls = 0

(***************************************************************************)
(* hooks/useImagePair.ts: generateRandomPair.                              *)
(***************************************************************************)
Repeat(x, n) == [i \in 1..n |-> x]

RECURSIVE WeightedFrom(_)
WeightedFrom(cats) ==
    IF cats = <<>> THEN <<>>
    ELSE Repeat(Head(cats), IF Head(cats) = "people" THEN peopleWeight ELSE 1)
         \o WeightedFrom(Tail(cats))

weightedList == WeightedFrom(availableCategories)

CategoryDrawListAlwaysWeighted ==
    IF "people" \in Range(availableCategories)
    THEN weightedList
    ELSE availableCategories
\* The list the category is drawn from with Math.floor(Math.random() * length).
CategoryDrawList ==
    IF "people" \in Range(availableCategories) /\ Len(availableCategories) > 1
    THEN weightedList
    ELSE availableCategories

\* A returning call: the locals go out of scope.
Return ==
    /\ pc' = "idle"
    /\ chosenCategory' = "none"
    /\ randomRealImage' = NoImage
    /\ attempts' = 0
    /\ calls' = Min(calls + 1, CallsBound)

NoCategoriesKeepLoading ==
    /\ error' = "No image categories available. Add images to public/images/"
    /\ loading' = TRUE
    /\ currentPair' = NoPair
    /\ shuffledImages' = <<>>
    /\ UNCHANGED recentlyUsedIds
    /\ Return
\* availableCategories.length === 0
NoCategoriesAvailable ==
    /\ error' = "No image categories available. Add images to public/images/"
    /\ loading' = FALSE
    /\ currentPair' = NoPair
    /\ shuffledImages' = <<>>
    /\ UNCHANGED recentlyUsedIds
    /\ Return

DataMismatchNever(real, ai) == FALSE
DataMismatch(real, ai) == Len(real) = 0 \/ Len(ai) = 0

\* real.length === 0 || ai.length === 0: report and return
DataMismatchReturn ==
    /\ error' = "Error fetching image data."
    /\ loading' = FALSE
    /\ UNCHANGED <<currentPair, shuffledImages, recentlyUsedIds>>
    /\ Return

\* The call goes on to the two draw loops with the chosen category.
EnterDraw(c) ==
    /\ loading' = TRUE
    /\ error' = NULL
    /\ pc' = "real"
    /\ chosenCategory' = c
    /\ attempts' = 0
    /\ UNCHANGED <<currentPair, shuffledImages, recentlyUsedIds,
                   randomRealImage, calls>>

FetchAndDraw(c) ==
    LET imgs == getCategoryImages(c)
    IN  IF DataMismatch(imgs.real, imgs.ai)
        THEN DataMismatchReturn
        ELSE EnterDraw(c)

\* Entry of generateRandomPair up to the first draw loop.
generateRandomPair ==
    /\ pc = "idle"
    /\ request' = "all"
    /\ UNCHANGED <<env, mobileVars, recentMobileImageIds>>
    /\ IF Len(availableCategories) = 0
       THEN NoCategoriesAvailable
       ELSE \E i \in 1..Len(CategoryDrawList) : FetchAndDraw(CategoryDrawList[i])

RealLoopCondAllAttempts(img, att) == att < maxAttempts
\* while (recentlyUsedIds.current.includes(randomRealImage.id) && attempts < maxAttempts)
RealLoopCond(img, att) ==
    img.id \in Range(recentlyUsedIds) /\ att < maxAttempts

\* One iteration of the do-while loop that draws the real image.
RealDraw ==
    /\ pc = "real"
    /\ LET real == getCategoryImages(chosenCategory).real
       IN  \E i \in 1..Len(real) :
             LET img == real[i]
                 att == attempts + 1
             IN  IF RealLoopCond(img, att)
                 THEN /\ attempts' = att
                      /\ randomRealImage' = img
                      /\ UNCHANGED pc
                 ELSE /\ pc' = "ai"
                      /\ randomRealImage' = img
                      /\ attempts' = 0
    /\ UNCHANGED <<env, seenVars, keyboardTimeouts,
                   mobileVars, recentMobileImageIds, currentPair, loading,
                   shuffledImages, error, recentlyUsedIds, chosenCategory,
                   request, calls, boardVars>>

AiLoopCondBudgetOverBoth(img, realImg, nAi, att) ==
    /\ \/ img.id \in Range(recentlyUsedIds)
       \/ (img.id = realImg.id /\ nAi > 1)
    /\ att < maxAttempts
\* while (includes(ai.id) || (ai.id === real.id && ai.length > 1) && attempts < maxAttempts)
\* && binds tighter than ||.
AiLoopCond(img, realImg, nAi, att) ==
    \/ img.id \in Range(recentlyUsedIds)
    \/ ((img.id = realImg.id /\ nAi > 1) /\ att < maxAttempts)

HistoryUnbounded(realImg, aiImg) == <<realImg.id, aiImg.id>> \o recentlyUsedIds
NextHistoryAiFirst(realImg, aiImg) ==
    Slice0(<<aiImg.id, realImg.id>> \o recentlyUsedIds, RECENT_HISTORY_LENGTH)
\* [pair.realImage.id, pair.aiImage.id, ...recentlyUsedIds.current].slice(0, RECENT_HISTORY_LENGTH)
NextHistory(realImg, aiImg) ==
    Slice0(<<realImg.id, aiImg.id>> \o recentlyUsedIds, RECENT_HISTORY_LENGTH)

\* Pair construction, setCurrentPair, setShuffledImages, history update.
Finish(realImg, aiImg) ==
    /\ currentPair' = [realImage |-> realImg, aiImage |-> aiImg,
                       category |-> chosenCategory]
    /\ shuffledImages' \in {<<realImg, aiImg>>, <<aiImg, realImg>>}
    /\ recentlyUsedIds' = NextHistory(realImg, aiImg)
    /\ loading' = FALSE
    /\ UNCHANGED error
    /\ Return

\* One iteration of the do-while loop that draws the AI image; the
\* iteration that leaves the loop runs the rest of the call.
AiIteration ==
    /\ pc = "ai"
    /\ LET ai == getCategoryImages(chosenCategory).ai
       IN  \E i \in 1..Len(ai) :
             LET img == ai[i]
                 att == attempts + 1
             IN  IF AiLoopCond(img, randomRealImage, Len(ai), att)
                 THEN /\ attempts' = Min(att, AttemptsCap)
                      /\ UNCHANGED <<currentPair, loading, shuffledImages, error,
                                     recentlyUsedIds, pc, chosenCategory,
                                     randomRealImage, calls>>
                 ELSE Finish(randomRealImage, img)
    /\ UNCHANGED <<env, keyboardTimeouts, mobileVars, recentMobileImageIds,
                   request, boardVars>>

\* The iteration where no effect of the board reads the new pair.
AiDraw ==
    /\ AiIteration
    /\ UNCHANGED seenVars

(***************************************************************************)
(* data/images.ts: getAllUniqueImages and shuffleArray.                    *)
(***************************************************************************)
\* Every position filled with a random element of the array.
shuffleArrayWithRepeats(array) ==
    {[i \in 1..Len(array) |-> array[f[i]]] : f \in [1..Len(array) -> 1..Len(array)]}
\* Fisher-Yates over a copy: every arrangement of the positions can result.
shuffleArray(array) ==
    {[i \in 1..Len(array) |-> array[p[i]]] : p \in Permutations(1..Len(array))}

EntryImagesRealOnly(c) == categoryImageCache[c].real
\* Images of one cache entry, real before ai.
EntryImages(c) == categoryImageCache[c].real \o categoryImageCache[c].ai

RECURSIVE CacheImages(_)
CacheImages(cats) ==
    IF cats = <<>> THEN <<>>
    ELSE EntryImages(Head(cats)) \o CacheImages(Tail(cats))

\* push(image) unless seenIds.has(image.id)
RECURSIVE UniqueById(_, _)
UniqueById(imgs, seenIds) ==
    IF imgs = <<>> THEN <<>>
    ELSE IF Head(imgs).id \in seenIds
         THEN UniqueById(Tail(imgs), seenIds)
         ELSE <<Head(imgs)>> \o UniqueById(Tail(imgs), seenIds \cup {Head(imgs).id})

\* allImages before the final shuffle
allUniqueImages == UniqueById(CacheImages(CategoryOrder), {})

getAllUniqueImages == shuffleArray(allUniqueImages)

(***************************************************************************)
(* hooks/useGameState.ts: the reducer, with the fields of the state that   *)
(* the handlers and effects of the game board read.                        *)
(***************************************************************************)
\* selectedImageId: null
NoId == NoImage.id

\* isCorrect is null or a boolean: the empty sequence, or the boolean in a
\* sequence of one.
NoAnswer == <<>>
Answer(correct) == <<correct>>

FilterCategory == Category \cup {"all"}

initialState ==
    [score |-> 0,
     totalAttempts |-> 0,
     selectedImageId |-> NoId,
     isCorrect |-> NoAnswer,
     showFeedback |-> FALSE,
     correctStreak |-> 0,
     selectedCategory |-> "people"]

state ==
    [score |-> score,
     totalAttempts |-> totalAttempts,
     selectedImageId |-> selectedImageId,
     isCorrect |-> isCorrect,
     showFeedback |-> showFeedback,
     correctStreak |-> correctStreak,
     selectedCategory |-> selectedCategory]

newStreakCounts(st, correct) == st.correctStreak + 1
newStreakKeeps(st, correct) ==
    IF correct THEN st.correctStreak + 1 ELSE st.correctStreak
\* const newStreak = isCorrect ? state.correctStreak + 1 : 0
newStreak(st, correct) == IF correct THEN st.correctStreak + 1 ELSE 0

gameReducer(st, action) ==
    CASE action.type = "SELECT_IMAGE" ->
            [st EXCEPT !.selectedImageId = action.payload]
      [] action.type = "SHOW_FEEDBACK" ->
            [st EXCEPT !.showFeedback = TRUE,
                       !.isCorrect = Answer(action.payload),
                       !.score = IF action.payload THEN st.score + 1 ELSE st.score,
                       !.totalAttempts = st.totalAttempts + 1,
                       !.correctStreak = newStreak(st, action.payload)]
      [] action.type = "NEXT_PAIR" ->
            [st EXCEPT !.selectedImageId = NoId,
                       !.showFeedback = FALSE,
                       !.isCorrect = NoAnswer]
      [] action.type = "RESET_GAME" ->
            [initialState EXCEPT !.correctStreak = 0]
      [] action.type = "SET_CATEGORY" ->
            [st EXCEPT !.selectedCategory = action.payload]
      [] OTHER -> st

\* ghost: no game reset was the last step
NoReset == [index |-> -1, count |-> -1, timer |-> FALSE, history |-> <<>>]

RECURSIVE Reduce(_, _)
Reduce(st, actions) ==
    IF actions = <<>> THEN st
    ELSE Reduce(gameReducer(st, Head(actions)), Tail(actions))

\* The dispatches of one handler, applied in order before the next render.
dispatch(actions) ==
    LET st == Reduce(state, actions)
    IN  /\ score' = st.score
        /\ totalAttempts' = st.totalAttempts
        /\ selectedImageId' = st.selectedImageId
        /\ isCorrect' = st.isCorrect
        /\ showFeedback' = st.showFeedback
        /\ correctStreak' = st.correctStreak
        /\ selectedCategory' = st.selectedCategory

InitGame ==
    /\ score = initialState.score
    /\ totalAttempts = initialState.totalAttempts
    /\ selectedImageId = initialState.selectedImageId
    /\ isCorrect = initialState.isCorrect
    /\ showFeedback = initialState.showFeedback
    /\ correctStreak = initialState.correctStreak
    /\ selectedCategory = initialState.selectedCategory
    /\ nextActionTimer = FALSE
    /\ pendingRounds = 0
    /\ lastStep = "none"
    /\ resetFrom = NoReset

\* The functions of the hook, called in any order.  nextActionTimer,
\* pendingRounds and resetFrom belong to the board.
HookStep(action) ==
    /\ dispatch(<<action>>)
    /\ lastStep' = action.type
    /\ UNCHANGED <<env, seenVars, keyboardTimeouts,
                   pairVars, mobileVars, recentMobileImageIds,
                   nextActionTimer, pendingRounds, resetFrom>>

selectImage ==
    \E img \in Range(allUniqueImages) :
        HookStep([type |-> "SELECT_IMAGE", payload |-> img.id])

ShowFeedback ==
    /\ totalAttempts < MaxTotalAttempts
    /\ \E correct \in BOOLEAN :
          HookStep([type |-> "SHOW_FEEDBACK", payload |-> correct])

nextPair == HookStep([type |-> "NEXT_PAIR"])

resetGame == HookStep([type |-> "RESET_GAME"])

setCategory ==
    \E category \in FilterCategory :
        HookStep([type |-> "SET_CATEGORY", payload |-> category])

(***************************************************************************)
(* Game board: the feedback timer effect.  nextPair of useGameState is a   *)
(* new function at every render, so the effect runs after every render:    *)
(* the cleanup of its last run first, then its body.                       *)
(***************************************************************************)
clearExistingTimerKeeps(pending) == pending
\* clearTimeout(ref.current); ref.current = null
clearExistingTimer(pending) == FALSE

\* pending: whether the timer of the last run is still to fire.
FeedbackTimerEffect(pending) ==
    nextActionTimer' = IF showFeedback' THEN TRUE ELSE clearExistingTimer(pending)

\* ghost: an advance takes the scored answers that waited for it
RoundAdvanced == IF pendingRounds > 0 THEN 0 ELSE -1

(***************************************************************************)
(* Game board, continuous mode: initializeMobileGame, advanceMobileImage,  *)
(* handleResetGame.                                                        *)
(***************************************************************************)
InitMobile ==
    /\ masterMobileList = <<>>
    /\ currentMobileImage = NoImage
    /\ masterMobileIndex = 0
    /\ uniqueImagesShownCount = 0
    /\ mobileLoading = TRUE
    /\ mobileError = NULL
    /\ isAdvancing = FALSE
    /\ shown = <<>>
    /\ advancesSinceShuffle = 0
    /\ advancesSinceTarget = 0

AtOneBased(array, index) ==
    IF index >= 1 /\ index <= Len(array) THEN array[index] ELSE NoImage
\* array[index] of JavaScript: undefined outside the array
At(array, index) ==
    IF index >= 0 /\ index < Len(array) THEN array[index + 1] ELSE NoImage

\* ghost: the observation of the displayed images has ended
Closed == <<NoImage>>

\* ghost: record a displayed image
Display(img, list) ==
    IF shown = Closed \/ Len(shown) > Len(list)
    THEN Closed
    ELSE Append(shown, img)

initializeMobileGame ==
    /\ mobileError' = (IF Len(allUniqueImages) = 0
                       THEN "No images available for the game."
                       ELSE NULL)
    /\ IF Len(allUniqueImages) = 0
       THEN /\ masterMobileList' = <<>>
            /\ currentMobileImage' = NoImage
            /\ shown' = <<>>
            /\ UNCHANGED <<masterMobileIndex, uniqueImagesShownCount,
                           advancesSinceShuffle, advancesSinceTarget>>
       ELSE \E allImages \in getAllUniqueImages :
              /\ masterMobileList' = allImages
              /\ currentMobileImage' = allImages[1]
              /\ masterMobileIndex' = 0
              /\ uniqueImagesShownCount' = 0
              /\ shown' = <<allImages[1]>>
              /\ advancesSinceShuffle' = 0
              /\ advancesSinceTarget' = 0
    /\ mobileLoading' = FALSE
    /\ UNCHANGED isAdvancing

\* The mount effect of a narrow window.
MountMobile ==
    /\ isMobile
    /\ mobileLoading = TRUE
    /\ initializeMobileGame
    /\ lastStep' = "initialize"
    /\ UNCHANGED <<env, seenVars, keyboardTimeouts,
                   pairVars, recentMobileImageIds, gameVars,
                   nextActionTimer, pendingRounds, resetFrom>>

\* The board below the error message and the spinner, with the reset button.
BoardRendered == mobileError = NULL /\ mobileLoading = FALSE

\* handleResetGame of a narrow window.
handleResetGame ==
    /\ isMobile
    /\ BoardRendered
    /\ dispatch(<<[type |-> "RESET_GAME"]>>)
    /\ initializeMobileGame
    /\ FeedbackTimerEffect(nextActionTimer)
    /\ pendingRounds' = 0
    /\ lastStep' = "initialize"
    /\ resetFrom' = [index |-> masterMobileIndex, count |-> uniqueImagesShownCount,
                     timer |-> nextActionTimer, history |-> <<>>]
    /\ UNCHANGED <<env, seenVars, keyboardTimeouts,
                   pairVars, recentMobileImageIds>>

\* (guess === 'real' && !image.isAI) || (guess === 'ai' && image.isAI)
GuessIsCorrect(guess, image) ==
    (guess = "real" /\ ~image.isAI) \/ (guess = "ai" /\ image.isAI)

MobileGuessReturnsFeedbackUnchecked ==
    currentMobileImage = NoImage \/ ~isMobile \/ isAdvancing
\* if (state.showFeedback || !currentMobileImage || !isMobile || isAdvancing) return
MobileGuessReturns ==
    showFeedback \/ currentMobileImage = NoImage \/ ~isMobile \/ isAdvancing

handleMobileGuess(guess) ==
    /\ ~MobileGuessReturns
    /\ totalAttempts < MaxTotalAttempts
    /\ dispatch(<<[type |-> "SHOW_FEEDBACK",
                   payload |-> GuessIsCorrect(guess, currentMobileImage)]>>)
    /\ FeedbackTimerEffect(nextActionTimer)
    /\ pendingRounds' = pendingRounds + 1
    /\ lastStep' = "guess"
    /\ resetFrom' = NoReset
    /\ UNCHANGED <<env, seenVars, keyboardTimeouts,
                   pairVars, mobileVars, recentMobileImageIds>>

NeedsReshuffleAboveTarget(newUniqueCount, nextIndex, length) ==
    newUniqueCount > UNIQUE_DISPLAY_COUNT_TARGET \/ nextIndex >= length
NeedsReshuffleLate(newUniqueCount, nextIndex, length) ==
    newUniqueCount >= UNIQUE_DISPLAY_COUNT_TARGET \/ nextIndex > length
NeedsReshuffleEarly(newUniqueCount, nextIndex, length) ==
    newUniqueCount >= UNIQUE_DISPLAY_COUNT_TARGET \/ nextIndex >= length - 1
\* newUniqueCount >= UNIQUE_DISPLAY_COUNT_TARGET || nextIndex >= currentList.length
NeedsReshuffle(newUniqueCount, nextIndex, length) ==
    newUniqueCount >= UNIQUE_DISPLAY_COUNT_TARGET \/ nextIndex >= length

CountAlwaysReset(newUniqueCount) == 0
\* if (newUniqueCount >= UNIQUE_DISPLAY_COUNT_TARGET) newUniqueCount = 0
CountAfterReshuffle(newUniqueCount) ==
    IF newUniqueCount >= UNIQUE_DISPLAY_COUNT_TARGET THEN 0 ELSE newUniqueCount

HasItemsSeveral(length) == length > 1
\* currentList.length > 0
HasItems(length) == length > 0

\* Runs from the feedback timer, which a guess on a rendered board starts.
advanceMobileImage ==
    /\ mobileLoading = FALSE
    /\ pendingRounds' = RoundAdvanced
    /\ resetFrom' = NoReset
    /\ LET nextIndex == masterMobileIndex + 1
           newUniqueCount == uniqueImagesShownCount + 1
       IN  IF NeedsReshuffle(newUniqueCount, nextIndex, Len(masterMobileList))
           THEN IF HasItems(Len(masterMobileList))
                THEN \E currentList \in shuffleArray(masterMobileList) :
                       /\ masterMobileList' = currentList
                       /\ currentMobileImage' = At(currentList, 0)
                       /\ masterMobileIndex' = 0
                       /\ uniqueImagesShownCount' = CountAfterReshuffle(newUniqueCount)
                       /\ shown' = Display(At(currentList, 0), currentList)
                       /\ advancesSinceShuffle' = 0
                       /\ advancesSinceTarget' =
                            (IF uniqueImagesShownCount + 1 >= UNIQUE_DISPLAY_COUNT_TARGET
                             THEN 0 ELSE advancesSinceTarget + 1)
                       /\ isAdvancing' = FALSE
                       /\ dispatch(<<[type |-> "NEXT_PAIR"]>>)
                       /\ FeedbackTimerEffect(FALSE)
                       /\ lastStep' = "reshuffle"
                ELSE /\ currentMobileImage' = NoImage
                     /\ isAdvancing' = TRUE
                     /\ UNCHANGED <<masterMobileList, masterMobileIndex,
                                    uniqueImagesShownCount, shown,
                                    advancesSinceShuffle, advancesSinceTarget,
                                    gameVars>>
                     /\ IF isAdvancing /\ currentMobileImage = NoImage
                        THEN nextActionTimer' = FALSE
                        ELSE FeedbackTimerEffect(FALSE)
                     /\ lastStep' = "empty"
           ELSE /\ currentMobileImage' = At(masterMobileList, nextIndex)
                /\ masterMobileIndex' = nextIndex
                /\ uniqueImagesShownCount' = newUniqueCount
                /\ shown' = Display(At(masterMobileList, nextIndex), masterMobileList)
                /\ advancesSinceShuffle' = advancesSinceShuffle + 1
                /\ advancesSinceTarget' = advancesSinceTarget + 1
                /\ isAdvancing' = FALSE
                /\ dispatch(<<[type |-> "NEXT_PAIR"]>>)
                /\ FeedbackTimerEffect(FALSE)
                /\ lastStep' = "next"
                /\ UNCHANGED masterMobileList
    /\ UNCHANGED <<env, seenVars, keyboardTimeouts,
                   pairVars, recentMobileImageIds, mobileLoading, mobileError>>

\* The callback of the feedback timer in a narrow window.
FeedbackTimerMobile ==
    /\ nextActionTimer
    /\ isMobile
    /\ advanceMobileImage

(***************************************************************************)
(* Game board, two-image mode of a wide window (components/GameBoard.tsx   *)
(* with hooks/useImagePair.ts).  A handler that calls generateRandomPair   *)
(* ends when the call returns; its dispatches and the effects of the       *)
(* render after it do not read the sampler and are applied with the entry  *)
(* of the call.  No other handler runs while a call is running.            *)
(***************************************************************************)
\* The mount effect of useImagePair.
MountDesktop ==
    /\ ~isMobile
    /\ lastStep = "none"
    /\ generateRandomPair
    /\ lastStep' = "mount"
    /\ UNCHANGED <<gameVars, nextActionTimer, pendingRounds, resetFrom,
                   seenVars, keyboardTimeouts>>

\* The image cards and the reset button are on the screen.
DesktopRendered == ~isMobile /\ lastStep # "none" /\ pc = "idle" /\ error = NULL

handleImageSelect(imageId) ==
    /\ DesktopRendered
    /\ ~(selectedImageId # NoId \/ showFeedback)
    /\ totalAttempts < MaxTotalAttempts
    /\ dispatch(<<[type |-> "SELECT_IMAGE", payload |-> imageId]>>
                \o (IF currentPair # NoPair
                    THEN <<[type |-> "SHOW_FEEDBACK",
                            payload |-> imageId = currentPair.realImage.id]>>
                    ELSE <<>>))
    /\ FeedbackTimerEffect(nextActionTimer)
    /\ pendingRounds' = (IF currentPair # NoPair THEN pendingRounds + 1
                                               ELSE pendingRounds)
    /\ lastStep' = "guess"
    /\ resetFrom' = NoReset
    /\ UNCHANGED <<env, seenVars, keyboardTimeouts,
                   pairVars, mobileVars, recentMobileImageIds>>

\* A click on one of the two image cards or an arrow key.
SelectImage ==
    \E i \in 1..Len(shuffledImages) : handleImageSelect(shuffledImages[i].id)

\* pending: whether the feedback timer is still to fire when the handler runs.
handleNextPair(pending) ==
    /\ ~isMobile
    /\ dispatch(<<[type |-> "NEXT_PAIR"]>>)
    /\ generateRandomPair
    /\ FeedbackTimerEffect(clearExistingTimer(pending))
    /\ pendingRounds' = RoundAdvanced
    /\ resetFrom' = NoReset

\* The callback of the feedback timer in a wide window.
FeedbackTimerDesktop ==
    /\ nextActionTimer
    /\ handleNextPair(FALSE)
    /\ lastStep' = "timer"
    /\ UNCHANGED <<seenVars, keyboardTimeouts>>

\* The Next Pair button of the feedback area.
NextPairButton ==
    /\ DesktopRendered
    /\ showFeedback
    /\ handleNextPair(nextActionTimer)
    /\ lastStep' = "button"
    /\ UNCHANGED <<seenVars, keyboardTimeouts>>

\* handleResetGame of GameBoard.tsx in a wide window.
handleResetGameDesktop ==
    /\ DesktopRendered
    /\ dispatch(<<[type |-> "RESET_GAME"]>>)
    /\ generateRandomPair
    /\ FeedbackTimerEffect(nextActionTimer)
    /\ pendingRounds' = 0
    /\ lastStep' = "reset"
    /\ resetFrom' = [index |-> masterMobileIndex, count |-> uniqueImagesShownCount,
                     timer |-> nextActionTimer, history |-> recentlyUsedIds]
    /\ UNCHANGED <<seenVars, keyboardTimeouts>>

(***************************************************************************)
(* Game board, single-image mode with a recent-id history: updateHistory.  *)
(***************************************************************************)
UpdatedHistoryUnfiltered(prev, newImageId) ==
    Slice0(<<newImageId>> \o prev, MOBILE_HISTORY_LENGTH)
\* [newImageId, ...prev.filter(id => id !== newImageId)].slice(0, MOBILE_HISTORY_LENGTH)
UpdatedHistory(prev, newImageId) ==
    LET Other(id) == id # newImageId
    IN  Slice0(<<newImageId>> \o SelectSeq(prev, Other), MOBILE_HISTORY_LENGTH)

\* Images a pair can hold, the ones the mobile image list is filled with.
PairImages == {img \in Range(allUniqueImages) : IsAvailable(img.category)}

\* updateHistory(newImageId), called for an image of the mobile image list.
updateHistory ==
    /\ isMobile
    /\ \E img \in PairImages :
          recentMobileImageIds' = UpdatedHistory(recentMobileImageIds, img.id)
    /\ UNCHANGED <<env, seenVars, keyboardTimeouts,
                   pairVars, mobileVars, boardVars>>

(***************************************************************************)
(* Game board with a mobile image list: updateMobileList and the effect on *)
(* a new pair that fills the list.                                         *)
(***************************************************************************)
\* existingIds.has(id)
HasId(list, id) == \E i \in 1..Len(list) : list[i].id = id

\* newList of updateMobileList: the real image, then the AI image, each
\* pushed unless the list held its id before the call.
AppendedList(prevList, newReal, newAi) ==
    LET withReal == IF HasId(prevList, newReal.id) THEN prevList
                    ELSE Append(prevList, newReal)
    IN  IF HasId(prevList, newAi.id) THEN withReal ELSE Append(withReal, newAi)

\* The lists the updater of updateMobileList can return.
updateMobileList(prevList, newReal, newAi) ==
    LET newList == AppendedList(prevList, newReal, newAi)
    IN  IF Len(newList) > Len(prevList) THEN shuffleArray(newList)
        ELSE {prevList}

\* The effect on currentPair of the board with the arrow-key timeout; it
\* runs in both window widths.
PopulateEffect ==
    IF currentPair' # NoPair
    THEN /\ mobileImageList' \in updateMobileList(mobileImageList,
                                      currentPair'.realImage, currentPair'.aiImage)
         /\ isInitialMobileLoad' = FALSE
    ELSE UNCHANGED <<mobileImageList, isInitialMobileLoad>>

\* The iteration of the AI draw loop on that board: the one that returns a
\* pair is followed by the effect on currentPair.
AiDrawPopulate ==
    /\ AiIteration
    /\ IF pc' = "idle"
       THEN PopulateEffect
       ELSE UNCHANGED <<mobileImageList, isInitialMobileLoad>>
    /\ UNCHANGED <<currentMobileIndex, seenMobileImageIds, needsMobileAdvance,
                   fetchesLeft>>

(***************************************************************************)
(* Game board with the arrow-key timeout, two-image mode of a wide window: *)
(* handleKeyDown, its 500 ms timeout, and the reset button.                *)
(***************************************************************************)
\* handleKeyDown for ArrowLeft (position 1) and ArrowRight (position 2).  The
\* handle of the timeout it sets is not kept.
handleKeyDown ==
    /\ ~isMobile
    /\ pc = "idle"
    /\ ~(showFeedback \/ loading
         \/ (currentPair = NoPair /\ Len(mobileImageList) = 0))
    /\ selectedImageId = NoId
    /\ Len(shuffledImages) = 2
    /\ totalAttempts < MaxTotalAttempts
    /\ keyboardTimeouts < MaxKeyboardTimeouts
    /\ \E i \in 1..2 :
         dispatch(<<[type |-> "SELECT_IMAGE", payload |-> shuffledImages[i].id],
                    [type |-> "SHOW_FEEDBACK",
                     payload |-> shuffledImages[i].id = currentPair.realImage.id]>>)
    /\ keyboardTimeouts' = keyboardTimeouts + 1
    /\ FeedbackTimerEffect(nextActionTimer)
    /\ pendingRounds' = pendingRounds + 1
    /\ lastStep' = "key"
    /\ resetFrom' = NoReset
    /\ UNCHANGED <<env, seenVars, pairVars, mobileVars, recentMobileImageIds>>

\* The callback of a timeout of handleKeyDown.
KeyboardTimeout ==
    /\ keyboardTimeouts > 0
    /\ handleNextPair(nextActionTimer)
    /\ keyboardTimeouts' = keyboardTimeouts - 1
    /\ lastStep' = "keyboard timeout"
    /\ UNCHANGED seenVars

\* The callback of the feedback timer on that board.  The timer is set for
\* 1500 ms by the render that follows a selection, a timeout of handleKeyDown
\* for 500 ms by a selection: a pending timeout of handleKeyDown is due first.
FeedbackTimerAfterKeys ==
    /\ keyboardTimeouts = 0
    /\ FeedbackTimerDesktop

\* The reset button of that board: onReset={resetGame}.
ResetButton ==
    /\ DesktopRendered
    /\ dispatch(<<[type |-> "RESET_GAME"]>>)
    /\ FeedbackTimerEffect(nextActionTimer)
    /\ pendingRounds' = 0
    /\ lastStep' = "reset"
    /\ resetFrom' = [index |-> masterMobileIndex, count |-> uniqueImagesShownCount,
                     timer |-> nextActionTimer, history |-> recentlyUsedIds]
    /\ UNCHANGED <<env, seenVars, keyboardTimeouts, pairVars, mobileVars,
                   recentMobileImageIds>>

(***************************************************************************)
(* Game board, single-image mode that keeps the set of the images already  *)
(* guessed (components/GameBoard.tsx): the effect on a new pair, the       *)
(* guess, the advancement effect and handleResetGame.  The state updates   *)
(* of a handler or effect that calls generateRandomPair do not read the    *)
(* sampler and are applied with the entry of its first call; the updates   *)
(* of the calls of one loop are rendered together after the last call.     *)
(***************************************************************************)
\* list.findIndex(img => img.id === id)
FindIndex(list, id) ==
    LET hits == {i \in 1..Len(list) : list[i].id = id}
    IN  IF hits = {} THEN -1
        ELSE (CHOOSE i \in hits : \A j \in hits : i <= j) - 1

\* The effect on currentPair: the list is filled in a narrow window only, and
\* the run of the effect that follows finds the list filled.
PopulateEffectMobile ==
    IF currentPair' # NoPair /\ isMobile
    THEN /\ mobileImageList' \in updateMobileList(mobileImageList,
                                      currentPair'.realImage, currentPair'.aiImage)
         /\ isInitialMobileLoad' =
                (isInitialMobileLoad /\ ~(Len(mobileImageList') > 0))
    ELSE UNCHANGED <<mobileImageList, isInitialMobileLoad>>

\* The iteration of the AI draw loop on this board: the one that returns
\* the pair of the last call of a handler is followed by the effect on
\* currentPair.
AiDrawSeen ==
    /\ AiIteration
    /\ IF pc' = "idle" /\ fetchesLeft = 0
       THEN PopulateEffectMobile
       ELSE UNCHANGED <<mobileImageList, isInitialMobileLoad>>
    /\ UNCHANGED <<currentMobileIndex, seenMobileImageIds, needsMobileAdvance,
                   fetchesLeft>>

\* The mount effect of useImagePair in a narrow window.
MountSeen ==
    /\ isMobile
    /\ lastStep = "none"
    /\ generateRandomPair
    /\ lastStep' = "mount"
    /\ UNCHANGED <<gameVars, nextActionTimer, pendingRounds, resetFrom,
                   seenVars, keyboardTimeouts>>

\* getCurrentMobileImage(): the image on the screen.
getCurrentMobileImage ==
    IF isMobile THEN At(mobileImageList, currentMobileIndex) ELSE NoImage

\* isMobile && (loading || mobileImageList.length === 0) && isInitialMobileLoad
showMobileLoader ==
    isMobile /\ (loading \/ Len(mobileImageList) = 0) /\ isInitialMobileLoad

\* handleMobileGuess of this board, by a button, a swipe or a key.
handleMobileGuessSeen(guess) ==
    /\ isMobile
    /\ pc = "idle"
    /\ fetchesLeft = 0
    /\ ~(showFeedback \/ At(mobileImageList, currentMobileIndex) = NoImage)
    /\ totalAttempts < MaxTotalAttempts
    /\ dispatch(<<[type |-> "SHOW_FEEDBACK",
                   payload |-> GuessIsCorrect(guess,
                                   At(mobileImageList, currentMobileIndex))]>>)
    /\ FeedbackTimerEffect(nextActionTimer)
    /\ pendingRounds' = pendingRounds + 1
    /\ lastStep' = "guess"
    /\ resetFrom' = NoReset
    /\ UNCHANGED <<env, seenVars, keyboardTimeouts, pairVars, mobileVars,
                   recentMobileImageIds>>

\* for (let i = 0; i < count; i++) generateRandomPair(): the first call is
\* entered, the others wait.
FetchPairs(count) ==
    IF count > 0
    THEN /\ generateRandomPair
         /\ fetchesLeft' = count - 1
    ELSE /\ fetchesLeft' = 0
         /\ UNCHANGED <<env, pairVars, mobileVars, recentMobileImageIds>>

\* The next call of the loop of FetchPairs.
NextFetch ==
    /\ fetchesLeft > 0
    /\ generateRandomPair
    /\ fetchesLeft' = fetchesLeft - 1
    /\ UNCHANGED <<boardVars, keyboardTimeouts, mobileImageList,
                   currentMobileIndex, isInitialMobileLoad, seenMobileImageIds,
                   needsMobileAdvance>>

\* The callback of the feedback timer in a narrow window sets
\* needsMobileAdvance; the advancement effect of the render after it runs.
\* With an empty list the effect returns and the flag stays set.
FeedbackTimerSeen ==
    /\ nextActionTimer
    /\ isMobile
    /\ pc = "idle"
    /\ fetchesLeft = 0
    /\ lastStep' = "timer"
    /\ resetFrom' = NoReset
    /\ UNCHANGED <<mobileImageList, isInitialMobileLoad, keyboardTimeouts>>
    /\ IF Len(mobileImageList) = 0
       THEN /\ needsMobileAdvance' = TRUE
            /\ nextActionTimer' = FALSE
            /\ UNCHANGED <<env, pairVars, mobileVars, recentMobileImageIds,
                           gameVars, pendingRounds, currentMobileIndex,
                           seenMobileImageIds, fetchesLeft>>
       ELSE LET shownImage == At(mobileImageList, currentMobileIndex)
                nextSeenIds == IF shownImage # NoImage
                               THEN seenMobileImageIds \cup {shownImage.id}
                               ELSE seenMobileImageIds
                Unseen(img) == img.id \notin nextSeenIds
                availableImages == SelectSeq(mobileImageList, Unseen)
            IN  /\ seenMobileImageIds' = nextSeenIds
                /\ IF Len(availableImages) > 0
                   THEN \E k \in 1..Len(availableImages) :
                          /\ currentMobileIndex' =
                                 FindIndex(mobileImageList, availableImages[k].id)
                          /\ FetchPairs(IF Len(availableImages) <= PREFETCH_THRESHOLD
                                        THEN FETCH_COUNT ELSE 0)
                   ELSE /\ UNCHANGED currentMobileIndex
                        /\ FetchPairs(FETCH_COUNT)
                /\ dispatch(<<[type |-> "NEXT_PAIR"]>>)
                /\ needsMobileAdvance' = FALSE
                /\ FeedbackTimerEffect(FALSE)
                /\ pendingRounds' = RoundAdvanced

\* handleResetGame of this board in a narrow window.
handleResetGameSeen ==
    /\ isMobile
    /\ lastStep # "none"
    /\ pc = "idle"
    /\ fetchesLeft = 0
    /\ error = NULL
    /\ ~showMobileLoader
    /\ dispatch(<<[type |-> "RESET_GAME"]>>)
    /\ seenMobileImageIds' = {}
    /\ mobileImageList' = <<>>
    /\ currentMobileIndex' = 0
    /\ isInitialMobileLoad' = TRUE
    /\ generateRandomPair
    /\ FeedbackTimerEffect(nextActionTimer)
    /\ pendingRounds' = 0
    /\ lastStep' = "reset"
    /\ resetFrom' = [index |-> masterMobileIndex, count |-> uniqueImagesShownCount,
                     timer |-> nextActionTimer, history |-> recentlyUsedIds]
    /\ UNCHANGED <<needsMobileAdvance, fetchesLeft, keyboardTimeouts>>

\* The state of the game board before its first effect has run.
InitSeen ==
    /\ mobileImageList = <<>>
    /\ currentMobileIndex = 0
    /\ isInitialMobileLoad = TRUE
    /\ seenMobileImageIds = {}
    /\ needsMobileAdvance = FALSE
    /\ fetchesLeft = 0
    /\ keyboardTimeouts = 0

(***************************************************************************)
(* Specifications.                                                         *)
(***************************************************************************)
Init ==
    /\ files \in Catalogs
    /\ isMobile \in BOOLEAN
    /\ InitPair
    /\ InitMobile
    /\ recentMobileImageIds = <<>>
    /\ InitGame
    /\ InitSeen

InitDesktop ==
    /\ Init
    /\ ~isMobile

InitMobileSpec ==
    /\ Init
    /\ isMobile
    /\ TotalImages(files) <= MaxPool

\* The pair sampler of a wide window.
Next ==
    \/ generateRandomPair
           /\ UNCHANGED <<boardVars, seenVars, keyboardTimeouts>>
    \/ RealDraw
    \/ AiDraw

Spec == InitDesktop /\ [][Next]_vars

\* The continuous single-image mode of a narrow window.  The sampler does
\* not read the guess: the player of these runs answers Real every time.
NextMobile ==
    \/ MountMobile
    \/ handleResetGame
    \/ handleMobileGuess("real")
    \/ FeedbackTimerMobile

SpecMobile == InitMobileSpec /\ [][NextMobile]_vars

\* Both bounded histories: the pair sampler in a wide window, the recent-id
\* history in a narrow one.
NextHistories ==
    \/ ~isMobile /\ generateRandomPair
           /\ UNCHANGED <<boardVars, seenVars, keyboardTimeouts>>
    \/ RealDraw
    \/ AiDraw
    \/ updateHistory

SpecHistories == Init /\ [][NextHistories]_vars

\* The game board with its reducer and its feedback timer: the two-image
\* mode in a wide window, the continuous mode in a narrow one.
NextBoard ==
    \/ MountDesktop
    \/ SelectImage
    \/ FeedbackTimerDesktop
    \/ NextPairButton
    \/ handleResetGameDesktop
    \/ RealDraw
    \/ AiDraw
    \/ MountMobile
    \/ handleResetGame
    \/ handleMobileGuess("real")
    \/ FeedbackTimerMobile

InitBoard ==
    /\ Init
    /\ TotalImages(files) <= MaxPool

SpecBoard == InitBoard /\ [][NextBoard]_vars

\* The reducer alone, under every order of the calls of the hook's functions.
NextReducer ==
    \/ selectImage
    \/ ShowFeedback
    \/ nextPair
    \/ resetGame
    \/ setCategory

InitReducer ==
    /\ InitDesktop
    /\ TotalImages(files) <= MaxReducerImages

SpecReducer == InitReducer /\ [][NextReducer]_vars

\* The two-image mode of the board with the arrow-key timeout.
NextKeyboard ==
    \/ MountDesktop
    \/ SelectImage
    \/ handleKeyDown
    \/ KeyboardTimeout
    \/ FeedbackTimerAfterKeys
    \/ NextPairButton
    \/ ResetButton
    \/ RealDraw
    \/ AiDrawPopulate

InitKeyboard ==
    /\ InitDesktop
    /\ TotalImages(files) <= MaxPool

SpecKeyboard == InitKeyboard /\ [][NextKeyboard]_vars

\* The single-image mode that keeps the set of the images already guessed.
\* The list and the seen set do not read the guess: the player of these runs
\* answers Real every time.
NextSeen ==
    \/ MountSeen
    \/ handleMobileGuessSeen("real")
    \/ FeedbackTimerSeen
    \/ NextFetch
    \/ handleResetGameSeen
    \/ RealDraw
    \/ AiDrawSeen

InitSeenSpec ==
    /\ Init
    /\ isMobile

SpecSeen == InitSeenSpec /\ [][NextSeen]_vars

\* The first call of generateRandomPair, the one of the mount effect of the
\* hook, on catalogs with files in all four category directories.
DrawCatalogs ==
    {f \in [Category -> [real : 0..MaxReal, ai : 0..MaxAi]] :
        TotalImages(f) <= MaxDrawImages}

InitDraw ==
    /\ files \in DrawCatalogs
    /\ isMobile = FALSE
    /\ InitPair
    /\ InitMobile
    /\ recentMobileImageIds = <<>>
    /\ InitGame
    /\ InitSeen

NextDraw ==
    \/ calls = 0 /\ generateRandomPair
           /\ UNCHANGED <<boardVars, seenVars, keyboardTimeouts>>
    \/ RealDraw
    \/ AiDraw

SpecDraw == InitDraw /\ [][NextDraw]_vars

(***************************************************************************)
(* Pair request with a category filter (nextPair(category) of the          *)
(* specification, section 4.2 step 1): a concrete category is the chosen   *)
(* category; the rest of the call is generateRandomPair from the fetch on. *)
(***************************************************************************)
nextPairConcrete ==
    /\ pc = "idle"
    /\ \E c \in Category :
         /\ request' = c
         /\ FetchAndDraw(c)
    /\ UNCHANGED <<env, seenVars, keyboardTimeouts,
                   mobileVars, recentMobileImageIds, boardVars>>

NextFilter ==
    \/ generateRandomPair
           /\ UNCHANGED <<boardVars, seenVars, keyboardTimeouts>>
    \/ nextPairConcrete
    \/ RealDraw
    \/ AiDraw

InitFilter ==
    /\ InitDesktop
    /\ TotalImages(files) <= MaxPool

SpecFilter == InitFilter /\ [][NextFilter]_vars

(***************************************************************************)
(* Properties of the pair sampler.                                         *)
(***************************************************************************)
AiPool(c) == categoryImageCache[c].ai
RealPool(c) == categoryImageCache[c].real

\* C1: every pair returned for a category with at least 2 AI images has
\* realImage.id different from aiImage.id.
C1_DistinctIds ==
    (currentPair # NoPair /\ Len(AiPool(currentPair.category)) >= 2)
        => currentPair.realImage.id # currentPair.aiImage.id

\* Several calls have returned and the pair is of a category with 2 AI images.
C1_Witness ==
    /\ calls >= 2
    /\ currentPair # NoPair
    /\ Len(AiPool(currentPair.category)) >= 2

\* C3 (as claimed): no draw loop of generateRandomPair makes more than
\* maxAttempts draws, whatever the history holds.
C3_BoundedDraws == attempts <= maxAttempts

\* The catalog of the scenario of C4: people has real = [r1, r2], ai = [a1],
\* and nothing else has files.
C4_Scenario ==
    files = [c \in Category |->
                IF c = "people" THEN [real |-> 2, ai |-> 1]
                                ELSE [real |-> 0, ai |-> 0]]

\* C4 (as claimed): in the scenario each of the first 5 calls completes, the
\* single AI image being accepted although it is in the history, and every
\* returned pair has that AI image.
C4_FiveForcedPairs ==
    C4_Scenario =>
        /\ currentPair # NoPair => currentPair.aiImage = MkImage("ai", "people", 1)
        /\ (pc = "ai" /\ calls < 5) =>
              ~AiLoopCond(MkImage("ai", "people", 1), randomRealImage, 1,
                          attempts + 1)

\* C5: neither history is ever longer than its window.
C5_HistoryBounded ==
    /\ Len(recentlyUsedIds) <= RECENT_HISTORY_LENGTH
    /\ Len(recentMobileImageIds) <= MOBILE_HISTORY_LENGTH

\* A full pair history after a call that had to drop entries.
C5_Witness ==
    /\ Len(recentlyUsedIds) = RECENT_HISTORY_LENGTH
    /\ calls * 2 > RECENT_HISTORY_LENGTH

\* A request is running or has returned for a concrete category without AI images.
C7_Case == request \in Category /\ Len(AiPool(request)) = 0

C7_Reported ==
    C7_Case => (pc = "idle" /\ error = "Error fetching image data." /\ ~loading)

C7_NothingRecorded ==
    (request' \in Category /\ Len(AiPool(request')) = 0)
        => (recentlyUsedIds' = recentlyUsedIds /\ currentPair' = currentPair)

C8_NoCategories ==
    Len(availableCategories) = 0 =>
        /\ pc = "idle"
        /\ recentlyUsedIds = <<>>
        /\ calls > 0 =>
              /\ error = "No image categories available. Add images to public/images/"
              /\ currentPair = NoPair
              /\ shuffledImages = <<>>
              /\ loading = FALSE

\* Two calls have returned on a catalog that has files but no available category.
C8_Witness ==
    /\ Len(availableCategories) = 0
    /\ TotalImages(files) > 0
    /\ calls >= 2

\* C9: a returned pair has a real image that is not AI and an AI image that
\* is, both of the pair's category, which is an available category.
C9_PairWellFormed ==
    currentPair # NoPair =>
        /\ currentPair.realImage.isAI = FALSE
        /\ currentPair.aiImage.isAI = TRUE
        /\ currentPair.realImage.category = currentPair.category
        /\ currentPair.aiImage.category = currentPair.category
        /\ currentPair.realImage \in Range(RealPool(currentPair.category))
        /\ currentPair.aiImage \in Range(AiPool(currentPair.category))
        /\ currentPair.category \in Range(availableCategories)

\* A pair of a category other than people, with people available as well.
C9_Witness ==
    /\ currentPair # NoPair
    /\ currentPair.category # "people"
    /\ "people" \in Range(availableCategories)

(***************************************************************************)
(* Properties of the continuous single-image mode.                         *)
(***************************************************************************)
NoRepeat(s, from, to) ==
    \A i, j \in from..to : i # j => s[i].id # s[j].id

CoverageWindow == Min(UNIQUE_DISPLAY_COUNT_TARGET, Len(masterMobileList))

\* C2 (as claimed): in any window of min(U, poolSize) consecutive displayed
\* images, wherever it starts, no image id occurs twice.
C2_CoverageWindow ==
    shown # Closed =>
        \A from \in 1..Len(shown) :
            from + CoverageWindow - 1 <= Len(shown)
                => NoRepeat(shown, from, from + CoverageWindow - 1)

\* The pool is no larger than the unique-display target and is being observed.
C6_Case ==
    /\ shown # Closed
    /\ Len(masterMobileList) > 0
    /\ Len(masterMobileList) <= UNIQUE_DISPLAY_COUNT_TARGET

C6_FirstPass ==
    C6_Case =>
        LET n == Len(masterMobileList)
        IN  /\ NoRepeat(shown, 1, Min(Len(shown), n))
            /\ Range(shown) \subseteq Range(allUniqueImages)
            /\ Len(shown) >= 1
            /\ Len(shown) >= n =>
                  {shown[i] : i \in 1..n} = Range(allUniqueImages)

C6_ThenReshuffle ==
    (C6_Case /\ Len(shown) = Len(masterMobileList)
        /\ shown' # Closed /\ Len(shown') = Len(shown) + 1)
        => (masterMobileIndex = Len(masterMobileList) - 1 /\ masterMobileIndex' = 0)

\* C6: after initialize on a pool of n <= U images the current image and the
\* results of the first n-1 advances are pairwise distinct and are the pool;
\* the advance after them restarts at index 0 of a reshuffled list and
\* returns an image of the pool.
C6_FullPassThenReshuffle == [](C6_FirstPass) /\ [][C6_ThenReshuffle]_vars

\* A pool as large as the target has been displayed once and the advance
\* after the pass has happened.
C6_Witness ==
    /\ C6_Case
    /\ Len(masterMobileList) = UNIQUE_DISPLAY_COUNT_TARGET
    /\ Len(shown) = Len(masterMobileList) + 1

\* C10: the index is inside a non-empty master list.
C10_IndexInRange ==
    masterMobileList # <<>> =>
        (0 <= masterMobileIndex /\ masterMobileIndex < Len(masterMobileList))

\* The last position of a list of several images, after the first pass.
C10_Witness ==
    /\ Len(masterMobileList) >= 2
    /\ masterMobileIndex = Len(masterMobileList) - 1
    /\ shown = Closed

\* C11 (as claimed): after every advance uniqueImagesShownCount is the number
\* of advances made since the master list was last shuffled, and it is never
\* above min(U, length of the master list).
C11_CountSinceReshuffle ==
    lastStep \in {"next", "reshuffle"} =>
        /\ uniqueImagesShownCount = advancesSinceShuffle
        /\ uniqueImagesShownCount
              <= Min(UNIQUE_DISPLAY_COUNT_TARGET, Len(masterMobileList))

\* C11 (amended): after every advance uniqueImagesShownCount is the number of
\* advances made since initialize or, if later, since the last reshuffle
\* that the unique-display target triggered; a reshuffle at the end of the
\* list does not restart it; it is never above U - 1.
C11_CountSinceTarget ==
    lastStep \in {"next", "reshuffle"} =>
        /\ uniqueImagesShownCount = advancesSinceTarget
        /\ uniqueImagesShownCount >= advancesSinceShuffle
        /\ uniqueImagesShownCount <= UNIQUE_DISPLAY_COUNT_TARGET - 1

\* The count has gone on after a reshuffle at the end of the list and is
\* above the length of the list.
C11_Witness ==
    /\ lastStep \in {"next", "reshuffle"}
    /\ uniqueImagesShownCount > Len(masterMobileList)
    /\ uniqueImagesShownCount > advancesSinceShuffle

\* The catalog holds exactly one image and the mount effect has run.
C15_Case == Len(allUniqueImages) = 1 /\ mobileLoading = FALSE

\* C15: with a pool of exactly one image the image shown after initialize and
\* after every advance is that image, no error is set and interaction is not
\* blocked.
C15_SingleImagePool ==
    C15_Case =>
        /\ currentMobileImage = allUniqueImages[1]
        /\ currentMobileImage # NoImage
        /\ mobileError = NULL
        /\ isAdvancing = FALSE

\* Three advances on a pool of one image: two reshuffles at the end of the
\* list and one at the unique-display target.
C15_Witness ==
    /\ C15_Case
    /\ lastStep = "reshuffle"
    /\ uniqueImagesShownCount = 0

\* The images of the files of the catalog.
CatalogImages ==
    {MkImage(t, c, i) : <<t, c, i>> \in
        {x \in {"real", "ai"} \X Category \X (1..(MaxReal + MaxAi)) :
            x[3] <= files[x[2]][x[1]]}}

\* list holds every image of pool once and nothing else.
IsPermutationOf(list, pool) ==
    /\ Len(list) = Cardinality(pool)
    /\ Range(list) = pool

\* C16: initializeMobileGame, run by the mount effect or by a game reset in
\* any state, either finds the pool empty and sets the error with a null
\* current image, or sets the master list to a permutation of the pool with
\* index 0, count 0 and the first image of the list as the current image.
C16_Initialize ==
    lastStep = "initialize" =>
        IF CatalogImages = {}
        THEN /\ mobileError = "No images available for the game."
             /\ currentMobileImage = NoImage
        ELSE /\ mobileError = NULL
             /\ IsPermutationOf(masterMobileList, CatalogImages)
             /\ masterMobileIndex = 0
             /\ uniqueImagesShownCount = 0
             /\ currentMobileImage = masterMobileList[1]

\* A reset in the middle of a pass, at a later index and a count above 0,
\* while the feedback of an answered round showed.
C16_ResetMidPass ==
    /\ lastStep = "initialize"
    /\ resetFrom.index > 0
    /\ resetFrom.count > 0
    /\ resetFrom.timer
    /\ Len(masterMobileList) >= 2

\* The step is an advance: it took the branch that reshuffles or the one
\* that moves on in the list.
C17_Advance == lastStep' \in {"next", "reshuffle"}

C17_Step ==
    C17_Advance =>
        LET endOfList == masterMobileIndex + 1 >= Len(masterMobileList)
            target == uniqueImagesShownCount + 1 >= UNIQUE_DISPLAY_COUNT_TARGET
        IN  /\ (lastStep' = "reshuffle") <=> (endOfList \/ target)
            /\ lastStep' = "reshuffle" => masterMobileIndex' = 0
            /\ lastStep' = "next" =>
                  /\ masterMobileIndex' = masterMobileIndex + 1
                  /\ masterMobileList' = masterMobileList
            /\ (uniqueImagesShownCount' = 0) <=> target
            /\ ~target => uniqueImagesShownCount' = uniqueImagesShownCount + 1

\* C17: an advance reshuffles exactly when index + 1 >= length of the list or
\* count + 1 >= U; after a reshuffle the index is 0; the count is reset to 0
\* if and only if count + 1 >= U held, and is the incremented count otherwise.
C17_ReshuffleTrigger == [][C17_Step]_vars

\* A reshuffle at the end of the list alone, the incremented count kept.
C17_Witness ==
    /\ lastStep = "reshuffle"
    /\ uniqueImagesShownCount > 0
    /\ Len(masterMobileList) >= 2

\* The continuous mode has been initialized on a pool that is not empty.
C18_Ready == mobileLoading = FALSE /\ CatalogImages # {}

\* C18: in every state of the continuous mode the master list is a
\* permutation of the pool that initialize fixed, the images of the catalog,
\* so that no advance, with or without a reshuffle, adds, drops or
\* duplicates an image.
C18_ListIsPermutation ==
    C18_Ready => IsPermutationOf(masterMobileList, CatalogImages)

\* A first pass over a pool of 3 images, then the reshuffle at the end of the
\* list, which left the list in another order than the pass was shown in.
C18_Witness ==
    /\ lastStep = "reshuffle"
    /\ Len(masterMobileList) = 3
    /\ shown # Closed
    /\ Len(shown) = 4
    /\ masterMobileList # SubSeq(shown, 1, 3)

\* C19: once initialize has run, and after every advance, the image shown is
\* the one at the index of the master list, and it is null only when the
\* list is empty; no state between two operations has the index past the
\* end of the list or a null image on a list that has images.
C19_CurrentAtIndex ==
    mobileLoading = FALSE =>
        IF masterMobileList = <<>>
        THEN currentMobileImage = NoImage
        ELSE /\ masterMobileIndex \in 0..(Len(masterMobileList) - 1)
             /\ currentMobileImage = masterMobileList[masterMobileIndex + 1]
             /\ currentMobileImage # NoImage

\* The third image of a pass, reached by two advances without a reshuffle.
C19_Witness ==
    /\ lastStep = "next"
    /\ masterMobileIndex = 2
    /\ currentMobileImage = masterMobileList[3]

\* C20 (as claimed): the combined pool of the continuous mode holds images of
\* available categories only, so no image of a category with an empty real
\* or AI partition is in the master list or shown.
C20_PoolOfAvailableCategories ==
    /\ \A img \in Range(masterMobileList) : IsAvailable(img.category)
    /\ currentMobileImage # NoImage => IsAvailable(currentMobileImage.category)

\* The categories with files in both partitions, read off the catalog.
BothPartitions == {c \in Category : files[c].real > 0 /\ files[c].ai > 0}

\* Slots of the category in the list the category is drawn from.
Slots(c) ==
    Cardinality({i \in 1..Len(CategoryDrawList) : CategoryDrawList[i] = c})

C13_HistoryReset ==
    (lastStep = "reset" /\ pc = "idle") =>
        Range(recentlyUsedIds) \subseteq
            (IF currentPair = NoPair THEN {}
             ELSE {currentPair.realImage.id, currentPair.aiImage.id})

\* C12: the feedback timer is cancelable.  An answered round gets at most
\* one advance (a call of generateRandomPair by handleNextPair in a wide
\* window, an advanceMobileImage in a narrow one), from the timer or from the
\* Next Pair button: no advance runs that no answered round was waiting for.
\* The timer is pending only while the feedback of a round that has not been
\* advanced shows, and a game reset leaves no timer pending, so no advance
\* follows a reset before the next answer.
C12_TimerCancelable ==
    /\ pendingRounds >= 0
    /\ nextActionTimer => (showFeedback /\ pendingRounds = 1)
    /\ lastStep \in {"reset", "initialize"} =>
          (~nextActionTimer /\ pendingRounds = 0)

\* A reset pressed in a wide window while the timer of an answered round was
\* pending; the call of the reset has returned with a pair.
C12_Witness ==
    /\ ~isMobile
    /\ lastStep = "reset"
    /\ resetFrom.timer
    /\ pc = "idle"
    /\ currentPair # NoPair

\* The step returns from generateRandomPair with a pair.
C21_Returns == pc = "ai" /\ pc' = "idle"

C21_Step ==
    IF C21_Returns
    THEN /\ currentPair' # NoPair
         /\ recentlyUsedIds' =
                Slice0(<<currentPair'.realImage.id, currentPair'.aiImage.id>>
                           \o recentlyUsedIds,
                       RECENT_HISTORY_LENGTH)
    ELSE recentlyUsedIds' = recentlyUsedIds

\* C21: when a call of generateRandomPair returns a pair, the history is the
\* id of the real image, then the id of the AI image, then the history as it
\* was, in its order, cut to RECENT_HISTORY_LENGTH entries; no other step of
\* the sampler changes the history.
C21_NewestFirst == [][C21_Step]_vars

\* A third pair has been recorded on a full history: its two ids are in
\* front, the AI id of the pair before follows, the oldest entries were
\* dropped.
C21_Witness ==
    /\ calls >= 3
    /\ currentPair # NoPair
    /\ Len(recentlyUsedIds) = RECENT_HISTORY_LENGTH
    /\ recentlyUsedIds[1] = currentPair.realImage.id
    /\ recentlyUsedIds[2] = currentPair.aiImage.id
    /\ recentlyUsedIds[4] # currentPair.aiImage.id

\* C22 (as claimed): no image id occurs more than once in the history of the
\* pair sampler.
C22_NoDuplicateIds ==
    \A i, j \in 1..Len(recentlyUsedIds) :
        i # j => recentlyUsedIds[i] # recentlyUsedIds[j]

\* The real images of the chosen category whose id is not in the history.
C23_Fresh ==
    {img \in Range(RealPool(chosenCategory)) : img.id \notin Range(recentlyUsedIds)}

C23_Step ==
    /\ (pc = "real" /\ pc' = "real") =>
          /\ randomRealImage'.id \in Range(recentlyUsedIds)
          /\ attempts' = attempts + 1
          /\ attempts' < maxAttempts
    /\ (pc = "real" /\ pc' = "ai") =>
          /\ randomRealImage' \in Range(RealPool(chosenCategory))
          /\ randomRealImage'.id \in Range(recentlyUsedIds)
                => attempts + 1 = maxAttempts
          /\ randomRealImage' \in C23_Fresh
                => (Cardinality(C23_Fresh) = 1 => C23_Fresh = {randomRealImage'})
    /\ (pc = "ai" /\ pc' = "idle") =>
          /\ currentPair' # NoPair
          /\ currentPair'.realImage = randomRealImage

\* C23: the loop that draws the real image goes on only after a draw whose id
\* is in the history and only below maxAttempts draws, so the first draw
\* outside the history is accepted; an accepted draw whose id is in the
\* history is the draw number maxAttempts; the accepted draw is the real
\* image of the returned pair, the only real image outside the history when
\* there is one such image and it was drawn.
C23_SoftExclusion == [][C23_Step]_vars

\* The budget ran out on a category with one real image in the history and
\* one outside: the image in the history was accepted.
C23_Witness ==
    /\ pc = "ai"
    /\ randomRealImage.id \in Range(recentlyUsedIds)
    /\ Cardinality(C23_Fresh) = 1

C24_Step ==
    IF pc = "ai" /\ pc' = "idle"
    THEN /\ currentPair' # NoPair
         /\ currentPair'.aiImage.id \notin Range(recentlyUsedIds)
    ELSE recentlyUsedIds' = recentlyUsedIds /\ currentPair' = currentPair

\* C24: the history does not change while a call of generateRandomPair runs,
\* and when the call returns a pair the id of its AI image is not in the
\* history the call started with: the history check of the AI loop is not
\* under the attempts bound, so it filters and does not give way.
C24_AiNotInHistory == [][C24_Step]_vars

\* A second pair of a category while the AI image of its first pair is in
\* the history: the AI loop had an image to turn away.
C24_Witness ==
    /\ calls >= 2
    /\ pc = "idle"
    /\ currentPair # NoPair
    /\ \E i \in 3..Len(recentlyUsedIds) :
          \E img \in Range(AiPool(currentPair.category)) :
              recentlyUsedIds[i] = img.id

(***************************************************************************)
(* Properties of the recent-id history of the single-image mode.           *)
(***************************************************************************)
\* Position in h of its k-th entry other than id.
C30_Position(h, id, k) ==
    CHOOSE p \in 1..Len(h) :
        /\ h[p] # id
        /\ Cardinality({q \in 1..p : h[q] # id}) = k

C30_Recorded(h, id) ==
    LET r == UpdatedHistory(h, id)
        others == Cardinality({p \in 1..Len(h) : h[p] # id})
    IN  /\ r[1] = id
        /\ \A i \in 2..Len(r) : r[i] # id
        /\ Len(r) = Min(MOBILE_HISTORY_LENGTH, 1 + others)
        /\ \A i \in 2..Len(r) : r[i] = h[C30_Position(h, id, i - 1)]
        /\ UpdatedHistory(r, id) = r

\* C30: for the history in any reachable state and any image id, the history
\* after updateHistory(id) has id at position 0 and nowhere else, then the
\* other ids of the old history in their old order, as many as fit into
\* MOBILE_HISTORY_LENGTH entries; recording id again leaves it as it is.
C30_UpdateHistory ==
    \A img \in PairImages : C30_Recorded(recentMobileImageIds, img.id)

\* A full history whose last id is recorded again while another image is not
\* in it: recording the one moves it to the front, recording the other drops
\* the last id.
C30_Witness ==
    /\ Len(recentMobileImageIds) = MOBILE_HISTORY_LENGTH
    /\ \E img \in PairImages : img.id \notin Range(recentMobileImageIds)
    /\ UpdatedHistory(recentMobileImageIds,
                      recentMobileImageIds[MOBILE_HISTORY_LENGTH])[1]
          # recentMobileImageIds[1]

(***************************************************************************)
(* Properties of the game reducer.                                         *)
(***************************************************************************)
\* C26: in every state the reducer's actions lead to, the streak is at least
\* 0 and at most the score, and the score is at most the number of attempts.
C26_StreakScoreAttempts ==
    /\ 0 <= correctStreak
    /\ correctStreak <= score
    /\ score <= totalAttempts

\* A correct answer after a wrong one after a correct one: all three numbers
\* differ.
C26_Witness ==
    /\ 0 < correctStreak
    /\ correctStreak < score
    /\ score < totalAttempts
    /\ lastStep = "SHOW_FEEDBACK"

C27_Step ==
    /\ lastStep' = "SHOW_FEEDBACK" =>
          /\ totalAttempts' = totalAttempts + 1
          /\ showFeedback' = TRUE
          /\ isCorrect' \in {Answer(TRUE), Answer(FALSE)}
          /\ isCorrect' = Answer(TRUE) =>
                (score' = score + 1 /\ correctStreak' = correctStreak + 1)
          /\ isCorrect' = Answer(FALSE) =>
                (score' = score /\ correctStreak' = 0)
          /\ UNCHANGED <<selectedImageId, selectedCategory>>
    /\ lastStep' = "NEXT_PAIR" =>
          /\ selectedImageId' = NoId
          /\ showFeedback' = FALSE
          /\ isCorrect' = NoAnswer
          /\ UNCHANGED <<score, totalAttempts, correctStreak, selectedCategory>>

\* C27: SHOW_FEEDBACK adds 1 to totalAttempts and shows the feedback; with a
\* correct answer it adds 1 to score and to correctStreak, with a wrong one
\* it leaves score and sets correctStreak to 0; NEXT_PAIR clears
\* selectedImageId, showFeedback and isCorrect and leaves score,
\* totalAttempts, correctStreak and selectedCategory as they were.
C27_FeedbackThenNextPair == [][C27_Step]_vars

\* NEXT_PAIR after a wrong answer that ended a streak, with an image selected
\* before and another category than the initial one set.
C27_Witness ==
    /\ lastStep = "NEXT_PAIR"
    /\ score >= 2
    /\ correctStreak = 0
    /\ totalAttempts > score
    /\ selectedCategory # "people"
    /\ isCorrect = NoAnswer

\* The step changes one of the three numbers of the score.
C25_Scores ==
    \/ score' # score
    \/ totalAttempts' # totalAttempts
    \/ correctStreak' # correctStreak

\* The step is an advance to the next round or a game reset.
C25_AdvanceOrReset ==
    lastStep' \in {"next", "reshuffle", "empty", "timer", "button",
                   "reset", "initialize"}

C25_Step ==
    /\ C25_Scores =>
          \/ /\ lastStep' \in {"reset", "initialize"}
             /\ score' = 0 /\ totalAttempts' = 0 /\ correctStreak' = 0
          \/ /\ lastStep' = "guess"
             /\ ~showFeedback
             /\ selectedImageId = NoId
             /\ showFeedback'
             /\ totalAttempts' = totalAttempts + 1
             /\ pendingRounds' = 1
    /\ (showFeedback /\ ~showFeedback') => C25_AdvanceOrReset
    /\ (selectedImageId # NoId /\ selectedImageId' = NoId) => C25_AdvanceOrReset

\* C25: apart from a game reset, score, totalAttempts and correctStreak change
\* only in a guess taken while no feedback shows and no image is selected;
\* that guess shows the feedback and adds 1 to totalAttempts, and the
\* feedback and the selection stay until an advance or a game reset.  So
\* one answer is scored between two advances, whatever the order of clicks,
\* keys and the timer.
C25_OneScoredGuess == [][C25_Step]_vars

\* The second answer of a game in a wide window shows its feedback, with the
\* timer pending: the answer before was followed by an advance.
C25_Witness ==
    /\ ~isMobile
    /\ showFeedback
    /\ nextActionTimer
    /\ totalAttempts = 2
    /\ score < totalAttempts
    /\ pendingRounds = 1

(***************************************************************************)
(* Properties of the arrow-key selection of the two-image mode.            *)
(***************************************************************************)
\* C28 (as claimed): in a running game every pair generation of an advance
\* (by the timeout of the arrow-key handler, by the Next Pair button or by
\* the feedback timer) answers a selection that was waiting for it: no
\* selection gets a second generateRandomPair call.
C28_OneGenerationPerSelection ==
    (lastStep \in {"keyboard timeout", "button", "timer"} /\ totalAttempts > 0)
        => pendingRounds >= 0

(***************************************************************************)
(* Properties of the single-image mode that keeps the seen set.            *)
(***************************************************************************)
\* C29 (as claimed): an image that is on the screen for guessing (narrow
\* window, no feedback shown, no call running or waiting) has not been
\* guessed since the last game reset: its id is not in the seen set.
C29_NeverPresentedAgain ==
    (isMobile /\ pc = "idle" /\ fetchesLeft = 0 /\ ~showFeedback)
        => getCurrentMobileImage.id \notin seenMobileImageIds

====
